---- MODULE Spec2Model ----
(***************************************************************************)
(* Offline-first synchronisation engine of the Quincaillerie management    *)
(* app: the write-ahead queue of offline-handler.js (IndexedDB store       *)
(* pendingOperations), its replay by processPendingOperations, the service *)
(* worker's sync_queue replay (syncQueuedRequests), the sync event         *)
(* dispatch, and the service worker's cache strategies.                    *)
(*                                                                         *)
(* Platform reading used throughout: `await store.x(...)` yields the       *)
(* result of the IndexedDB request and the transaction stays usable, a     *)
(* `fetch` rejects exactly when the network is down, and the browser       *)
(* dispatches a registered sync tag only while online and never twice      *)
(* concurrently for the same tag.                                          *)
(*                                                                         *)
(* The specifications share the variables:                                 *)
(*   Spec       the two queues, the sync triggers and the replay runs      *)
(*   SpecStore  the pendingOperations store under its public calls and a   *)
(*              crash/restart                                              *)
(*   SpecCache  the service worker's fetch handler and response cache      *)
(*   SpecRoute  the fetch handler's choice of a strategy, for every request *)
(*   SpecRetry  the replay runs under fairness, successes and rejections   *)
(*   SpecSales  createSale and the replay of the sales it queues           *)
(*   SpecData   the local mirror: storeData, getItemById, deleteItem and   *)
(*              fetchAndCacheData                                          *)
(*   SpecCharts the debounced charts update (SpecChartsLive: with fairness)*)
(*   SpecApi    enhancedApiFetch and its retries (SpecApiLive: with        *)
(*              fairness)                                                  *)
(*   SpecQueue  the fetch events of writes, and the sync events after them *)
(***************************************************************************)
EXTENDS Integers, Sequences, FiniteSets, Bags, TLC

VARIABLES
    online,             \* navigator.onLine / reachability of the server
    pendingOperations,  \* object store 'pendingOperations' (durable)
    nextOpId,           \* key generator of that store (autoIncrement)
    sales,              \* object store 'sales' of the same database (durable)
    nextSaleId,         \* key generator of that store (autoIncrement)
    sync_queue,         \* object store 'sync_queue' of QuincaillerieSyncDB (durable)
    nextReqId,          \* key generator of that store (autoIncrement)
    authNotified,       \* sync_queue ids for which AUTH_REQUIRED was posted
    syncReg,            \* sync tags registered with the browser, not yet dispatched
    drains,             \* bag of the runs of processPendingOperations / syncQueuedRequests
    acked,              \* operations whose storePendingOperation call returned true, in call order
    unacked,            \* ids stored by a call that then returned false
    removed,            \* records that left a store: store, id, and what removed them
    restarted,          \* a crash/restart has happened
    lastDelete,         \* the last deleteItem('pendingOperations', id) call and its result
    saleResult,         \* the last createSale call: what it returned and what became of the sale
    cache,              \* the worker's response cache CACHE_NAME: URL -> stored body, 0 if none
    offlinePage,        \* whether OFFLINE_URL is in the cache
    origin,             \* the body the server currently answers a successful GET with
    req,                \* the GET fetch event being handled, and its outcome
    bg,                 \* background cache updates in flight, per URL
    mirror,             \* object stores 'products' and 'customers' (keyPath 'id', durable)
    lastCall,           \* the last call on those stores and what it returned
    timers,             \* setTimeout callbacks of the charts scheduler: handle -> ms left
    _reportsUpdateTimer,\* the handle the scheduler keeps, NoTimer for null
    lastTsAge,          \* Date.now() - _reportsLastTs, counted up to _reportsMinInterval
    updating,           \* updateAll calls that have not returned yet
    callAge,            \* ms since the last non-forced schedule call, counted up to _reportsDebounce
    burst,              \* non-forced schedule calls of the current burst, counted up to MaxBurst
    burstRuns,          \* updateAll calls started by a callback since that burst began
    apiCall,            \* the enhancedApiFetch call in progress: where it is, its
                        \* attemptNum, the requests it has issued, the last outcome
    loginRedirect       \* the redirect to /login that a 401 schedules is pending

opStore == <<pendingOperations, nextOpId, sales, nextSaleId>>
swStore == <<sync_queue, nextReqId, authNotified>>
history == <<acked, unacked, removed, restarted, lastDelete, saleResult>>
cacheVars == <<cache, offlinePage, origin, req, bg>>

mirrorVars == <<mirror, lastCall>>
chartVars == <<timers, _reportsUpdateTimer, lastTsAge, updating, callAge, burst, burstRuns>>
apiVars == <<apiCall, loginRedirect>>
pageVars == <<mirrorVars, chartVars, apiVars>>
engineVars == <<online, opStore, swStore, syncReg, drains, history, cacheVars>>

vars == <<engineVars, pageVars>>

----------------------------------------------------------------------------
(* Bounds of the model *)

MaxOps == 3       \* queued writes explored: the requests found in sync_queue when
                  \* the worker starts, or else the storePendingOperation calls
MaxDrains == 2    \* replay runs that can be in flight at the same time
MaxSales == 2     \* sales made through createSale
MaxKeys == 2      \* primary keys of the records in 'products' and 'customers'
MaxTimers == 2    \* timer handles of the charts scheduler
MaxUpdates == 2   \* updateAll calls in progress at the same time
MaxBurst == 3     \* schedule calls counted in one burst
Tick == 50        \* ms between two instants at which the scheduler is observed

----------------------------------------------------------------------------
(* Data *)

\* operation kinds the write path enqueues: (type, data) pairs; 'test_sync'
\* is the type offline-tester.js enqueues, which the replay switch does not know
OpKinds == { [type |-> "create_sale", data |-> "P1"],
             [type |-> "test_sync", data |-> "P2"] }

SyncTags == {"sync-queued-requests", "sync-pending-operations", "sync-all"}

\* HTTP statuses a replay can receive; NetworkError stands for a rejected fetch
NetworkError == 0
OkStatuses == {200}
AuthStatuses == {401, 403}
OnlineStatuses == {200, 401, 403, 500}

\* how the replay loops tell responses apart: response.ok, 401/403, the rest
Class(status) ==
    IF status \in OkStatuses THEN "ok"
    ELSE IF status \in AuthStatuses THEN "auth" ELSE "fail"

Range(s) == { s[k] : k \in DOMAIN s }

Ids(S) == { r.id : r \in S }

\* faulty variant of getAllData: the records in descending key order
RECURSIVE getAllData_descending(_)
getAllData_descending(store) ==
    IF store = {} THEN <<>>
    ELSE LET last == CHOOSE r \in store : \A o \in store : r.id >= o.id
         IN  <<last>> \o getAllData_descending(store \ {last})

\* store.getAll(): every record of the store, in ascending key order
RECURSIVE getAllData(_)
getAllData(store) ==
    IF store = {} THEN <<>>
    ELSE LET first == CHOOSE r \in store : \A o \in store : r.id <= o.id
         IN  <<first>> \o getAllData(store \ {first})

getPendingOperations == getAllData(pendingOperations)

\* faulty variant of deleteItem: takes id for a position in the list
deleteItem_byPosition(store, id) ==
    IF id \in DOMAIN getAllData(store) THEN store \ {getAllData(store)[id]} ELSE store

\* store.delete(id): removes the record with that key, if any
deleteItem(store, id) == { r \in store : r.id # id }

\* the switch of processPendingOperations: type -> endpoint, "" for an unknown type
Endpoint(op) ==
    CASE op.type = "create_sale"        -> "POST /api/sales/create"
      [] op.type = "update_product"     -> "PUT /api/inventory/products/id"
      [] op.type = "create_customer"    -> "POST /api/customers/create"
      [] op.type = "update_inventory"   -> "PUT /api/inventory/update-stock"
      [] op.type = "add_finance_record" -> "POST /api/finance/records"
      [] OTHER                          -> ""

\* what the observer notes when a delete of `id` is applied to `store`: the
\* record that leaves it, if there is one, and the cause
Leaving(store, name, id, cause) ==
    { [store |-> name, id |-> r.id, of |-> id, by |-> cause] :
          r \in store \ deleteItem(store, id) }

RemovedIds(name) == { r.id : r \in { x \in removed : x.store = name } }

\* the requests storeRequestForSync writes: id by autoIncrement
SeedRequests(n) ==
    { [id |-> k, url |-> "/api/sales/create", method |-> "POST", body |-> "B"] : k \in 1..n }

----------------------------------------------------------------------------
(* The write path: offline-handler.js storePendingOperation *)

\* faulty variant of AddKey: the smallest key not in the store, so that the
\* key of a deleted record is used again
AddKey_reuse == CHOOSE k \in 1..(MaxOps + 2) :
                    /\ k \notin Ids(pendingOperations)
                    /\ \A o \in 1..(k - 1) : o \in Ids(pendingOperations)

\* store.add(pendingOp) on an autoIncrement store: the key generator's next key
AddKey == nextOpId

\* The two stores are separate databases; the model explores the writes in one
\* of them at a time (nextReqId = 1: nothing was ever written to sync_queue).
\* outcome "stored": add and sync registration succeed, the call returns true;
\* "sync_rejected": the add commits, registration.sync.register rejects, the
\* catch returns false; "db_error": openDB or add rejects, nothing is stored
Enqueue(kind, outcome) ==
    IF outcome = "db_error"
    THEN UNCHANGED <<pendingOperations, nextOpId, syncReg, acked, unacked>>
    ELSE LET pendingOp == [id |-> AddKey, type |-> kind.type, data |-> kind.data] IN
         /\ pendingOperations' = pendingOperations \cup {pendingOp}
         /\ nextOpId' = nextOpId + 1
         /\ IF outcome = "stored"
            THEN /\ syncReg' = syncReg \cup {"sync-pending-operations"}
                 /\ acked' = Append(acked, pendingOp)
                 /\ UNCHANGED unacked
            ELSE /\ unacked' = unacked \cup {pendingOp.id}
                 /\ UNCHANGED <<syncReg, acked>>

\* a direct call, as the offline tester makes it
storePendingOperation(kind, outcome) ==
    /\ nextReqId = 1
    /\ nextOpId <= MaxOps
    /\ Enqueue(kind, outcome)
    /\ UNCHANGED <<pageVars, online, sales, nextSaleId, swStore, drains, removed, restarted,
                   lastDelete, saleResult, cacheVars>>

----------------------------------------------------------------------------
(* Triggers: pwa-installer.js and offline-tester.js register sync tags *)

\* window 'online' listeners: both register 'sync-queued-requests'
OnlineEvent ==
    /\ ~online
    /\ online' = TRUE
    /\ syncReg' = syncReg \cup {"sync-queued-requests"}
    /\ UNCHANGED <<pageVars, opStore, swStore, drains, history, cacheVars>>

OfflineEvent ==
    /\ online
    /\ online' = FALSE
    /\ UNCHANGED <<pageVars, opStore, swStore, syncReg, drains, history, cacheVars>>

\* syncOfflineData(): registers 'sync-queued-requests'
syncOfflineData ==
    /\ syncReg' = syncReg \cup {"sync-queued-requests"}
    /\ UNCHANGED <<pageVars, online, opStore, swStore, drains, history, cacheVars>>

\* the tester's Force Sync button: registers 'sync-all'
ForceSync ==
    /\ syncReg' = syncReg \cup {"sync-all"}
    /\ UNCHANGED <<pageVars, online, opStore, swStore, drains, history, cacheVars>>

----------------------------------------------------------------------------
(* Replay runs.  A run is a record: the function it executes, the sync tag  *)
(* whose event waits on it, its position (pc), the snapshot it iterates,    *)
(* the loop index, its counters and the ids it has issued requests for.     *)
(* A run is in the bag from its first fetch until it returns.               *)

Runs == BagToSet(drains)

Replace(run, new) == (drains (-) SetToBag({run})) (+) SetToBag({new})

FreeSlots == MaxDrains - BagCardinality(drains)

\* tags whose sync event is still waiting on a run (event.waitUntil)
Firing == { run.tag : run \in Runs } \ {"none"}

\* how many runs of fn are in flight
Active(fn) ==
    LET S == { r \in Runs : r.fn = fn } IN BagCardinality([r \in S |-> drains[r]])

\* whether the loop body issues a request for this record
Sendable(fn, op) == fn = "syncQueuedRequests" \/ Endpoint(op) # ""

\* the for-loop from position `from`: skip what the switch does not know
\* (continue), issue the next request, or fall out of the loop and return
Advance(run, from) ==
    LET cand == { j \in from..Len(run.snap) : Sendable(run.fn, run.snap[j]) }
    IN  IF cand = {}
        THEN [run EXCEPT !.pc = "done", !.i = Len(run.snap) + 1]
        ELSE LET j == CHOOSE c \in cand : \A o \in cand : c <= o
             IN  [run EXCEPT !.pc = "wait", !.i = j,
                             !.sent = Append(@, run.snap[j].id)]

\* a call of fn, up to its first fetch: read the store, then enter the loop
Begin(fn, tag, snap) ==
    Advance([pc |-> "start", fn |-> fn, tag |-> tag, snap |-> snap, i |-> 0,
             processed |-> 0, failed |-> 0, sent |-> <<>>], 1)

\* processPendingOperations(), up to its first fetch; it returns at once when
\* the store is empty or holds no operation of a known type
processPendingOperations == Begin("processPendingOperations", "none", getPendingOperations)

\* syncQueuedRequests(), up to its first fetch
syncQueuedRequests(tag) == Begin("syncQueuedRequests", tag, getAllData(sync_queue))

\* k calls that started in the same state, as a bag; a call that has already
\* returned leaves no run behind
Launch(run, k) == [r \in (IF k = 0 \/ run.pc = "done" THEN {} ELSE {run}) |-> k]

\* syncPendingOperations(): PROCESS_PENDING_OPERATIONS to each of the k
\* clients, each of which calls processPendingOperations()
syncPendingOperations(k) == Launch(processPendingOperations, k)

\* self.addEventListener('sync', ...)
SyncEvent(tag) ==
    /\ online
    /\ tag \in syncReg
    /\ tag \notin Firing
    /\ syncReg' = syncReg \ {tag}
    /\ CASE tag = "sync-queued-requests" ->
              /\ FreeSlots >= 1
              /\ drains' = drains (+) Launch(syncQueuedRequests(tag), 1)
         [] tag = "sync-pending-operations" ->
              \E k \in 0..FreeSlots :
                    drains' = drains (+) syncPendingOperations(k)
         [] tag = "sync-all" ->
              /\ FreeSlots >= 1
              /\ \E k \in 0..(FreeSlots - 1) :
                    drains' = drains (+) Launch(syncQueuedRequests(tag), 1)
                                     (+) syncPendingOperations(k)
    /\ UNCHANGED <<pageVars, online, opStore, swStore, history, cacheVars>>

\* a response to the request in flight: any status while online, a rejected
\* fetch while offline
Responses == IF online THEN OnlineStatuses ELSE {NetworkError}

\* the counters after a response: processed++ on response.ok, else failed++
Counted(run, status) ==
    [run EXCEPT !.processed = IF status \in OkStatuses THEN @ + 1 ELSE @,
                !.failed = IF status \in OkStatuses THEN @ ELSE @ + 1]

\* faulty variant of NextIndex: the loop is left at the first failed replay
NextIndex_break(run, status) ==
    IF status \in OkStatuses THEN run.i + 1 ELSE Len(run.snap) + 1

\* where the loop goes on after a response: with the next record, whatever
\* the status was (neither loop has a break)
NextIndex(run, status) == run.i + 1

\* the run after the response: back into the loop, or out of it
Continue(run, status) == Advance(Counted(run, status), NextIndex(run, status))

\* a run that has returned leaves the bag (its caller consumes the summary,
\* the sync event ends)
Resume(run, status) ==
    LET new == Continue(run, status)
    IN  IF new.pc = "done" THEN drains (-) SetToBag({run}) ELSE Replace(run, new)

\* no summary is handed to the pages
NoNotice == [type |-> "none", syncedCount |-> 0, failedCount |-> 0, totalCount |-> 0]

\* the message syncQueuedRequests posts to every client before it returns
SYNC_COMPLETED(run) ==
    [type |-> "SYNC_COMPLETED", syncedCount |-> run.processed,
     failedCount |-> run.failed, totalCount |-> Len(run.snap)]

\* the toast of the client that called processPendingOperations, made from
\* the value returned to it: showSyncNotification(result.processed,
\* result.failed); result.total is dropped
showSyncNotification(result) ==
    [type |-> "showSyncNotification", syncedCount |-> result.processed,
     failedCount |-> result.failed, totalCount |-> 0]

\* whether a summary of the run that returns reaches a page: always for
\* syncQueuedRequests, and for processPendingOperations if (result.processed > 0)
Notifies(run) == run.fn = "syncQueuedRequests" \/ run.processed > 0

\* what a run hands to the pages in its last step: its summary, when it
\* returns
Returned(run) ==
    IF run.pc = "done" /\ Notifies(run)
    THEN IF run.fn = "syncQueuedRequests" THEN SYNC_COMPLETED(run)
         ELSE showSyncNotification(run)
    ELSE NoNotice

\* The 'sales' store and createSale

\* a field the caller did not set
Undefined == 0

\* values of saleData.reference
References == {Undefined, 1}

\* ids the server gives to the sales it creates: one that a local sale
\* already has as its key, and one that no local sale has
ServerSaleIds == {1, MaxSales + 1}

\* result.sale_id of a response body; Undefined when the body carries no
\* success or no sale_id
SaleIds == ServerSaleIds \cup {Undefined}

\* store.put(item) on the autoIncrement store 'sales' (keyPath 'id'): an item
\* without id gets the generator's next key, an item with an id replaces the
\* record under that key
PutKey(item, next) == IF item.id = Undefined THEN next ELSE item.id

Put(store, item, next) ==
    LET key == PutKey(item, next)
    IN  { r \in store : r.id # key } \cup {[item EXCEPT !.id = key]}

\* the key generator after the put: past every key it has seen
NextKey(item, next) ==
    IF PutKey(item, next) >= next THEN PutKey(item, next) + 1 ELSE next

\* storeData(storeName, data) for an array: put each item in turn
RECURSIVE PutAll(_, _, _)
PutAll(store, items, next) ==
    IF items = <<>> THEN store
    ELSE PutAll(Put(store, Head(items), next), Tail(items),
                NextKey(Head(items), next))

RECURSIVE NextKeyAll(_, _)
NextKeyAll(items, next) ==
    IF items = <<>> THEN next
    ELSE NextKeyAll(Tail(items), NextKey(Head(items), next))

\* the saleData of a call: the sale's contents and its reference; the caller
\* sets no id, no created_at and no synced
SaleData(items, reference) ==
    [items |-> items, reference |-> reference, created_at |-> Undefined,
     id |-> Undefined, synced |-> FALSE]

\* no createSale call has returned
NoSale == [items |-> 0, success |-> FALSE, accepted |-> FALSE, queued |-> FALSE]

\* createSale(saleData): while online the sale is posted, and on response.ok
\* with result.success it is stored as synced under the server's id; in
\* every other case (offline, a rejected fetch, a non-ok status, a body
\* without success) it is stored with synced: false and
\* created_at, and queued as a create_sale operation.  storeData and
\* storePendingOperation return false on a database error and throw nothing,
\* and their results are not read: the call returns success: true.
createSale(reference, status, sale_id, stored, outcome) ==
    /\ nextReqId = 1
    /\ saleResult.items < MaxSales
    /\ status \in Responses
    /\ LET saleData == SaleData(saleResult.items + 1, reference)
           accepted == online /\ status \in OkStatuses /\ sale_id # Undefined
           item == IF accepted
                   THEN [saleData EXCEPT !.id = sale_id, !.synced = TRUE]
                   ELSE [saleData EXCEPT !.created_at = saleData.items,
                                         !.synced = FALSE]
       IN  /\ sales' = IF stored THEN Put(sales, item, nextSaleId) ELSE sales
           /\ nextSaleId' = IF stored THEN NextKey(item, nextSaleId) ELSE nextSaleId
           /\ IF accepted
              THEN UNCHANGED <<pendingOperations, nextOpId, syncReg, acked, unacked>>
              ELSE Enqueue([type |-> "create_sale", data |-> saleData], outcome)
           /\ saleResult' = [items |-> saleData.items, success |-> TRUE,
                             accepted |-> accepted,
                             queued |-> ~accepted /\ outcome # "db_error"]
    /\ UNCHANGED <<pageVars, online, swStore, drains, removed, restarted, lastDelete, cacheVars>>

\* the create_sale branch after response.ok: the first sale that has the
\* operation's reference, or its created_at and is not synced, gets the
\* server's id and synced: true, and the whole array is put back
localSale(op, all) ==
    { k \in DOMAIN all :
        /\ \/ all[k].reference = op.data.reference
           \/ (all[k].created_at = op.data.created_at /\ ~all[k].synced)
        /\ \A j \in 1..(k - 1) :
              ~ \/ all[j].reference = op.data.reference
                \/ (all[j].created_at = op.data.created_at /\ ~all[j].synced) }

Reconciled(op, sale_id) ==
    LET all == getAllData(sales)
    IN  [ k \in DOMAIN all |->
            IF k \in localSale(op, all)
            THEN [all[k] EXCEPT !.id = sale_id, !.synced = TRUE]
            ELSE all[k] ]

\* the 'sales' store and its key generator after the create_sale branch:
\* nothing is written when the body has no sale_id or no sale is found
Reconcile(op, sale_id) ==
    IF sale_id = Undefined \/ localSale(op, getAllData(sales)) = {} THEN sales
    ELSE PutAll(sales, Reconciled(op, sale_id), nextSaleId)

ReconcileKey(op, sale_id) ==
    IF sale_id = Undefined \/ localSale(op, getAllData(sales)) = {} THEN nextSaleId
    ELSE NextKeyAll(Reconciled(op, sale_id), nextSaleId)

\* the update_product branch after response.ok: the product with the
\* operation's id, if the store has it, takes the fields of op.data
\* ({...products[index], ...op.data}) and the whole array is put back
Merge(p, data) ==
    [f \in DOMAIN p \cup DOMAIN data |-> IF f \in DOMAIN data THEN data[f] ELSE p[f]]

UpdateProduct(products, op) ==
    IF \E p \in products : p.id = op.data.id
    THEN LET all == getAllData(products)
         IN  PutAll(products,
                    [k \in DOMAIN all |-> IF all[k].id = op.data.id
                                          THEN Merge(all[k], op.data) ELSE all[k]], 1)
    ELSE products

\* faulty variant of Deletes_processPendingOperations: the operation is
\* deleted once it was sent, whatever came back
Deletes_processPendingOperations_always(status) == TRUE

\* whether the loop body of processPendingOperations deletes the operation
\* it has just replayed: only on response.ok
Deletes_processPendingOperations(status) == status \in OkStatuses

\* the loop body after `await fetch(endpoint, ...)`: on response.ok delete the
\* operation and count it processed, on any other status or a rejected fetch
\* count it failed; then go on with the next operation
processPendingOperations_Response(run, status) ==
    /\ run \in Runs
    /\ run.pc = "wait"
    /\ run.fn = "processPendingOperations"
    /\ status \in Responses
    /\ LET op == run.snap[run.i]
           del == Deletes_processPendingOperations(status)
       IN  /\ pendingOperations' =
                 IF del THEN deleteItem(pendingOperations, op.id) ELSE pendingOperations
           /\ removed' = IF del THEN removed \cup Leaving(pendingOperations, "pendingOperations", op.id, Class(status))
                               ELSE removed
           /\ drains' = Resume(run, status)
           /\ IF del /\ op.type = "create_sale"
              THEN \E sale_id \in SaleIds :
                      /\ sales' = Reconcile(op, sale_id)
                      /\ nextSaleId' = ReconcileKey(op, sale_id)
              ELSE UNCHANGED <<sales, nextSaleId>>
           /\ mirror' = IF del /\ op.type = "update_product"
                        THEN [mirror EXCEPT !["products"] = UpdateProduct(@, op)]
                        ELSE mirror
    /\ UNCHANGED <<lastCall, chartVars, apiVars, online, nextOpId, swStore, syncReg, acked, unacked,
                   restarted, lastDelete, saleResult, cacheVars>>

\* whether the loop body of syncQueuedRequests deletes the request it has
\* just replayed: on response.ok, and on 401/403
Deletes_syncQueuedRequests(status) == status \in OkStatuses \cup AuthStatuses

\* the loop body after `await fetch(requestData.url, fetchOptions)`: on
\* response.ok delete the request and count it; otherwise count a failure and,
\* on 401/403, delete it and post AUTH_REQUIRED; a rejected fetch counts a failure
syncQueuedRequests_Response(run, status) ==
    /\ run \in Runs
    /\ run.pc = "wait"
    /\ run.fn = "syncQueuedRequests"
    /\ status \in Responses
    /\ LET requestData == run.snap[run.i]
           del == Deletes_syncQueuedRequests(status)
       IN  /\ sync_queue' =
                 IF del THEN deleteItem(sync_queue, requestData.id) ELSE sync_queue
           /\ removed' = IF del THEN removed \cup Leaving(sync_queue, "sync_queue", requestData.id, Class(status))
                               ELSE removed
           /\ authNotified' =
                 IF status \in AuthStatuses THEN authNotified \cup {requestData.id}
                 ELSE authNotified
           /\ drains' = Resume(run, status)
    /\ UNCHANGED <<pageVars, online, opStore, nextReqId, syncReg, acked, unacked, restarted,
                   lastDelete, saleResult, cacheVars>>

NoDelete == [id |-> 0, result |-> TRUE, again |-> FALSE]

----------------------------------------------------------------------------
(* The local mirror: storeData, getItemById, deleteItem, getProducts and    *)
(* getCustomers on the stores 'products' and 'customers' (keyPath 'id')     *)

MirrorStores == {"products", "customers"}

\* primary keys and contents of the mirrored records
Keys == 1..MaxKeys
Names == {"a", "b"}

\* records a caller passes to storeData; one without id has no primary key
Items == { [id |-> k, name |-> n] : k \in Keys \cup {Undefined}, n \in Names }

NoItem == [id |-> Undefined, name |-> ""]

\* the lists of a response body data[storeName]: rows of the server, each
\* with its id
Lists ==
    LET Rows == { i \in Items : i.id # Undefined }
    IN  {<<>>} \cup { <<a>> : a \in Rows }
               \cup { l \in { <<a, b>> : a, b \in Rows } : l[1].id # l[2].id }

\* the body of an ok response: success, and the list under data[storeName]
\* (Missing when the body has no such member); NoBody when there is no ok
\* response to read a body from
Missing == <<NoItem>>
NoBody == [success |-> FALSE, list |-> Missing]
Bodies == {NoBody} \cup [success : {TRUE}, list : Lists \cup {Missing}]
BodiesOf(status) == IF status \in OkStatuses THEN Bodies ELSE {NoBody}

NoCall ==
    [fn |-> "none", store |-> "", id |-> Undefined, item |-> NoItem, ok |-> FALSE,
     status |-> NetworkError, from |-> "none", list |-> <<>>]

\* The two stores are written by the same functions; the model explores the
\* writes to one of them at a time.
OneStore(storeName) == \A other \in MirrorStores \ {storeName} : mirror[other] = {}

\* faulty variant of getItemById: the record at that position of the store
getItemById_byPosition(store, id) ==
    IF id \in DOMAIN getAllData(store) THEN getAllData(store)[id] ELSE NoItem

\* store.get(id): the record with that key, undefined when there is none
getItemById(store, id) ==
    IF \E r \in store : r.id = id THEN CHOOSE r \in store : r.id = id ELSE NoItem

\* storeData(storeName, item) for a single item: true after store.put(item);
\* false, with nothing written, when openDB rejects (dbOK = FALSE) or put
\* throws because the item has no key (these stores are not autoIncrement)
storeDataCall(storeName, item, dbOK) ==
    LET ok == dbOK /\ item.id # Undefined IN
    /\ OneStore(storeName)
    /\ mirror' = [mirror EXCEPT ![storeName] = IF ok THEN Put(@, item, 1) ELSE @]
    /\ lastCall' = [NoCall EXCEPT !.fn = "storeData", !.store = storeName,
                                  !.id = item.id, !.item = item, !.ok = ok]
    /\ UNCHANGED <<engineVars, chartVars, apiVars>>

\* getItemById(storeName, id): the record, undefined when there is none and
\* null when the database cannot be read
getItemByIdCall(storeName, id, dbOK) ==
    /\ lastCall' = [NoCall EXCEPT !.fn = "getItemById", !.store = storeName,
                                  !.id = id, !.ok = dbOK,
                                  !.item = IF dbOK THEN getItemById(mirror[storeName], id)
                                           ELSE NoItem]
    /\ UNCHANGED <<engineVars, chartVars, apiVars, mirror>>

\* deleteItem(storeName, id) on a mirror store: true after store.delete(id),
\* false with nothing deleted when the database cannot be opened
deleteItemCall(storeName, id, dbOK) ==
    /\ mirror' = [mirror EXCEPT ![storeName] = IF dbOK THEN deleteItem(@, id) ELSE @]
    /\ lastCall' = [NoCall EXCEPT !.fn = "deleteItem", !.store = storeName,
                                  !.id = id, !.ok = dbOK]
    /\ UNCHANGED <<engineVars, chartVars, apiVars>>

\* faulty variant of FallsBack: a non-ok response is read like an ok one
FallsBack_onlyWhenRejected(status) == status = NetworkError

\* whether fetchAndCacheData goes to its catch branch: the fetch rejected or
\* !response.ok
FallsBack(status) == status \notin OkStatuses

\* fetchAndCacheData(endpoint, storeName), called by getProducts and
\* getCustomers.  ok response with success and a list: storeData(storeName,
\* list), whose result is not read, and the list is returned; ok response
\* without them: null; rejected fetch or non-ok status: getAllData(storeName),
\* which is [] when the database cannot be read.
fetchAndCacheData(storeName, status, body, dbOK) ==
    /\ status \in Responses
    /\ OneStore(storeName)
    /\ LET network == ~FallsBack(status) /\ body.success /\ body.list # Missing
           local == IF dbOK THEN getAllData(mirror[storeName]) ELSE <<>>
       IN  /\ mirror' = [mirror EXCEPT ![storeName] =
                            IF network /\ dbOK THEN PutAll(@, body.list, 1) ELSE @]
           /\ lastCall' =
                 [NoCall EXCEPT !.fn = "fetchAndCacheData", !.store = storeName,
                    !.ok = dbOK, !.status = status,
                    !.from = IF FallsBack(status) THEN "mirror"
                             ELSE IF network THEN "network" ELSE "null",
                    !.list = IF FallsBack(status) THEN local
                             ELSE IF network THEN body.list ELSE <<>>]
    /\ UNCHANGED <<engineVars, chartVars, apiVars>>

----------------------------------------------------------------------------
(* The charts scheduler: reports-charts.js scheduleUpdateReportsCharts and  *)
(* _doScheduledUpdate.  Time is observed every Tick ms; a timer runs at the *)
(* first instant at or after its delay, before time goes on.                *)

_reportsDebounce == 250
_reportsMinInterval == 700
Slack == 20

NoTimer == 0 - 1
TimerHandles == 1..MaxTimers

Min(a, b) == IF a < b THEN a ELSE b
Max(a, b) == IF a > b THEN a ELSE b

\* faulty variant of clearTimeout: the callback stays scheduled
clearTimeout_keeps(ts, handle) == ts

\* clearTimeout(handle): the callback will not run; nothing for null
clearTimeout(ts, handle) ==
    IF handle = NoTimer THEN ts ELSE [ts EXCEPT ![handle] = NoTimer]

\* setTimeout(callback, delay): a handle that is not in use
FreeHandle(ts) == CHOOSE h \in TimerHandles : ts[h] = NoTimer

\* _doScheduledUpdate(manager), entered with the timers as they are then:
\* within _reportsMinInterval of the last run it sets a timer for the rest of
\* the interval plus 20 ms, else it notes the time and calls updateAll
_doScheduledUpdate(ts) ==
    IF lastTsAge < _reportsMinInterval
    THEN /\ \E h \in TimerHandles : ts[h] = NoTimer
         /\ timers' = [ts EXCEPT ![FreeHandle(ts)] =
                                    _reportsMinInterval - lastTsAge + Slack]
         /\ _reportsUpdateTimer' = FreeHandle(ts)
         /\ UNCHANGED <<lastTsAge, updating>>
    ELSE /\ updating < MaxUpdates
         /\ timers' = ts
         /\ _reportsUpdateTimer' = NoTimer
         /\ lastTsAge' = 0
         /\ updating' = updating + 1

\* scheduleUpdateReportsCharts(manager, forceImmediate)
scheduleUpdateReportsCharts(forceImmediate) ==
    /\ IF forceImmediate
       THEN /\ _doScheduledUpdate(clearTimeout(timers, _reportsUpdateTimer))
            /\ callAge' = _reportsDebounce
            /\ burst' = 0
            /\ burstRuns' = 0
       ELSE LET ts == clearTimeout(timers, _reportsUpdateTimer) IN
            /\ \E h \in TimerHandles : ts[h] = NoTimer
            /\ timers' = [ts EXCEPT ![FreeHandle(ts)] = _reportsDebounce]
            /\ _reportsUpdateTimer' = FreeHandle(ts)
            /\ callAge' = 0
            /\ burst' = IF callAge < _reportsDebounce THEN Min(burst + 1, MaxBurst) ELSE 1
            /\ burstRuns' = IF callAge < _reportsDebounce THEN burstRuns ELSE 0
            /\ UNCHANGED <<lastTsAge, updating>>
    /\ UNCHANGED <<engineVars, mirrorVars, apiVars>>

\* a timer of the scheduler is due: its callback runs _doScheduledUpdate
TimerFires(h) ==
    /\ timers[h] = 0
    /\ _doScheduledUpdate([timers EXCEPT ![h] = NoTimer])
    /\ burstRuns' = IF burst > 0 /\ lastTsAge >= _reportsMinInterval
                    THEN Min(burstRuns + 1, 2) ELSE burstRuns
    /\ UNCHANGED <<engineVars, mirrorVars, apiVars, callAge, burst>>

\* `await updateAll(manager)` returns: its requests and canvas waits are over
updateAllReturns ==
    /\ updating > 0
    /\ updating' = updating - 1
    /\ UNCHANGED <<engineVars, mirrorVars, apiVars, timers, _reportsUpdateTimer, lastTsAge, callAge,
                   burst, burstRuns>>

\* Tick ms pass; no due callback is kept waiting
TimePasses ==
    /\ \A h \in TimerHandles : timers[h] # 0
    /\ timers' = [h \in TimerHandles |->
                    IF timers[h] = NoTimer THEN NoTimer ELSE Max(timers[h] - Tick, 0)]
    /\ lastTsAge' = Min(lastTsAge + Tick, _reportsMinInterval)
    /\ callAge' = Min(callAge + Tick, _reportsDebounce)
    /\ UNCHANGED <<engineVars, mirrorVars, apiVars, _reportsUpdateTimer, updating, burst, burstRuns>>

----------------------------------------------------------------------------
(* The API enhancement layer: enhanced-api-fetch.js enhancedApiFetch *)

maxRetries == 2
retryableStatuses == {408, 429, 500, 502, 503, 504}

\* what a request of enhancedApiFetch can end with: a response with one of
\* these statuses, a rejected fetch (NetworkError) or the abort by the
\* timeout (AbortError)
ApiStatuses == {200, 401, 403, 404} \cup retryableStatuses
AbortError == 0 - 2
Outcomes == IF online THEN ApiStatuses \cup {AbortError} ELSE {NetworkError, AbortError}

NoApiCall == [pc |-> "idle", attemptNum |-> 0, requests |-> 0, last |-> NetworkError]

\* faulty variant of Retries: every response that is not ok is retried
Retries_anyError(status, attemptNum) ==
    status \in ApiStatuses \ OkStatuses /\ attemptNum < maxRetries

\* whether the response is retried: retryableStatuses.includes(response.status)
\* && attemptNum < maxRetries; a 401 has thrown before this is looked at
Retries(status, attemptNum) ==
    status \in retryableStatuses /\ status # 401 /\ attemptNum < maxRetries

\* a caller calls enhancedApiFetch(url, options): attemptNum is 0 and the
\* first request is issued
enhancedApiFetch ==
    /\ apiCall.pc \in {"idle", "resolved", "rejected"}
    /\ apiCall' = [pc |-> "fetch", attemptNum |-> 0, requests |-> 1, last |-> NetworkError]
    /\ UNCHANGED <<engineVars, mirrorVars, chartVars, loginRedirect>>

\* the request settles.  response.ok resolves the call; a 401 schedules the
\* redirect to /login and rejects; a retryable status below maxRetries waits
\* delayMs * (attemptNum + 1); any other status, a rejected fetch and the
\* abort by the timeout reject the call
RequestSettles(outcome) ==
    /\ apiCall.pc = "fetch"
    /\ outcome \in Outcomes
    /\ apiCall' = [apiCall EXCEPT
                     !.last = outcome,
                     !.pc = IF outcome \in OkStatuses THEN "resolved"
                            ELSE IF outcome \in ApiStatuses /\ Retries(outcome, apiCall.attemptNum)
                                 THEN "delay" ELSE "rejected"]
    /\ loginRedirect' = (loginRedirect \/ outcome = 401)
    /\ UNCHANGED <<engineVars, mirrorVars, chartVars>>

\* the retry delay is over: enhancedApiFetch(url, options, attemptNum + 1)
\* issues the next request
RetryDelayElapses ==
    /\ apiCall.pc = "delay"
    /\ apiCall' = [apiCall EXCEPT !.pc = "fetch", !.attemptNum = @ + 1, !.requests = @ + 1]
    /\ UNCHANGED <<engineVars, mirrorVars, chartVars, loginRedirect>>

\* 1500 ms after a 401: window.location.href = '/login'; the page and its
\* calls are gone
LoginRedirect ==
    /\ loginRedirect
    /\ loginRedirect' = FALSE
    /\ apiCall' = NoApiCall
    /\ UNCHANGED <<engineVars, mirrorVars, chartVars>>

----------------------------------------------------------------------------
(* Direct calls on the pendingOperations store, and a crash *)

\* ids a caller may pass to deleteItem: stored ones and ones never stored
CallIds == 1..(MaxOps + 1)

\* window.offlineData.deleteItem('pendingOperations', id); dbOK = FALSE is the
\* catch branch (openDB or the transaction rejects): nothing deleted, false returned
DeleteItemCall(id, dbOK) ==
    /\ pendingOperations' =
          IF dbOK THEN deleteItem(pendingOperations, id) ELSE pendingOperations
    /\ removed' =
          IF dbOK
          THEN removed \cup Leaving(pendingOperations, "pendingOperations", id, "deleteItem")
          ELSE removed
    /\ lastDelete' = [id |-> id, result |-> dbOK, again |-> lastDelete.id = id]
    /\ UNCHANGED <<pageVars, online, nextOpId, sales, nextSaleId, swStore, syncReg, drains,
                   acked, unacked, restarted, saleResult, cacheVars>>

\* the page and the worker are killed and started again: the IndexedDB stores
\* and the registered sync tags survive, every replay run and call result is lost
Crash ==
    /\ restarted' = TRUE
    /\ drains' = EmptyBag
    /\ lastDelete' = NoDelete
    /\ saleResult' = [NoSale EXCEPT !.items = saleResult.items]
    /\ lastCall' = NoCall
    /\ UNCHANGED <<mirror, chartVars, apiVars, online, opStore, swStore, syncReg, acked, unacked, removed,
                   cacheVars>>

----------------------------------------------------------------------------
(* The service worker's fetch handler and response cache *)

MaxVersion == 2   \* bodies the server answers with, one after the other
MaxBg == 1        \* background cache updates in flight for one URL

\* a request as the fetch listener reads it; the pathname is the sequence of
\* its segments, an extension being the last of them
Request(method, mode, destination, hostname, pathname) ==
    [method |-> method, mode |-> mode, destination |-> destination,
     hostname |-> hostname, pathname |-> pathname]

NoRequest == Request("", "", "", "", <<>>)

\* the application's own host
AppHost == "localhost"

\* GET requests, one for each branch of the fetch listener, and a page that
\* the install event does not store
Dashboard == Request("GET", "navigate", "document", AppHost, <<"dashboard">>)
Admin == Request("GET", "navigate", "document", AppHost, <<"admin">>)
Products ==
    Request("GET", "cors", "", AppHost, <<"api", "inventory", "products">>)
CommonJs ==
    Request("GET", "no-cors", "script", AppHost, <<"static", "js", "common", ".js">>)
Manifest ==
    Request("GET", "cors", "manifest", AppHost, <<"static", "manifest", ".json">>)

\* the requests a page can make, by their parts
Requests ==
    { Request(method, mode, destination, hostname, pathname) :
        method \in {"GET", "POST"}, mode \in {"navigate", "cors"},
        destination \in {"document", "script", ""},
        hostname \in {AppHost, "unpkg.com"},
        pathname \in { <<"dashboard">>, <<"api", "inventory", "products">>,
                       <<"api", "admin", "settings">>,
                       <<"api", "reports", "export", ".css">>,
                       <<"static", "js", "common", ".js">>,
                       <<"static", "manifest", ".json">> } }

\* their URLs, the keys of the cache
Urls == {"/dashboard", "/admin", "/api/inventory/products",
         "/static/js/common.js", "/static/manifest.json"}

\* the request the page makes for each of them
RequestFor(url) ==
    CASE url = "/dashboard" -> Dashboard
      [] url = "/admin" -> Admin
      [] url = "/api/inventory/products" -> Products
      [] url = "/static/js/common.js" -> CommonJs
      [] url = "/static/manifest.json" -> Manifest

\* the URLs among them that the install event stores
STATIC_CACHE_URLS == Urls \ {"/admin"}

\* the paths the worker lists as the API endpoints to cache
API_CACHE_PATTERNS ==
    { <<"api", "inventory", "products">>, <<"api", "dashboard", "stats">>,
      <<"api", "sales", "recent">>, <<"api", "finance", "summary">>,
      <<"api", "customers", "list">> }

\* pattern.test(pathname) for one of the patterns, each anchored at the start
MatchesApiCachePatterns(pathname) ==
    \E pattern \in API_CACHE_PATTERNS :
        /\ Len(pathname) >= Len(pattern)
        /\ SubSeq(pathname, 1, Len(pattern)) = pattern

\* caches.match found nothing
NoEntry == 0

staticExtensions ==
    {".css", ".js", ".png", ".jpg", ".jpeg", ".gif", ".svg", ".ico", ".woff", ".woff2"}

staticHosts == {"cdn.tailwindcss.com", "unpkg.com", "cdn.jsdelivr.net"}

\* request.mode === 'navigate' || request.destination === 'document'
isNavigation(request) ==
    request.mode = "navigate" \/ request.destination = "document"

\* url.pathname.startsWith('/api/')
isAPIRequest(request) ==
    Len(request.pathname) >= 2 /\ request.pathname[1] = "api"

\* the pathname ends with one of the static extensions, or the host is one of
\* the three CDNs
isStaticResource(request) ==
    \/ /\ Len(request.pathname) >= 1
       /\ request.pathname[Len(request.pathname)] \in staticExtensions
    \/ request.hostname \in staticHosts

\* faulty variant of Dispatch: the method is not looked at
Dispatch_anyMethod(request) ==
    IF isNavigation(request) THEN "handleNavigationRequest"
    ELSE IF isAPIRequest(request) THEN "apiRequestStrategy"
    ELSE IF isStaticResource(request) THEN "cacheFirstStrategy"
    ELSE "networkFirstStrategy"

\* the fetch listener's dispatch: a request that is not a GET is left to the
\* browser
Dispatch(request) ==
    IF request.method # "GET" THEN "none"
    ELSE IF isNavigation(request) THEN "handleNavigationRequest"
    ELSE IF isAPIRequest(request) THEN "apiRequestStrategy"
    ELSE IF isStaticResource(request) THEN "cacheFirstStrategy"
    ELSE "networkFirstStrategy"

\* the dispatch of the GET of a URL
Strategy(url) == Dispatch(RequestFor(url))

\* what respondWith is given
CachedResponse(body) == [from |-> "cache", status |-> 200, body |-> body]
NetworkResponse(status, body) ==
    [from |-> "network", status |-> status,
     body |-> IF status \in OkStatuses THEN body ELSE NoEntry]
OfflinePage == [from |-> "offline_page", status |-> 200, body |-> NoEntry]
Synthetic503 == [from |-> "synthetic", status |-> 503, body |-> NoEntry]
\* the JSON body {success: false, error: ..., offline: true}
OfflineJson == -1
OfflineResponse == [from |-> "synthetic", status |-> 503, body |-> OfflineJson]
Rejected == [from |-> "error", status |-> NetworkError, body |-> NoEntry]
NoResponse == [from |-> "none", status |-> NetworkError, body |-> NoEntry]

\* statuses a GET can be answered with; NetworkError is a rejected fetch
GetStatuses == IF online THEN {200, 500} ELSE {NetworkError}

\* faulty variant of ServesFromCache: every handler asks the network first
ServesFromCache_never(url, entry) == FALSE

\* cacheFirstStrategy and apiRequestStrategy look in the cache before anything
\* else and answer from it when the entry is there
ServesFromCache(url, entry) ==
    /\ Strategy(url) \in {"apiRequestStrategy", "cacheFirstStrategy"}
    /\ entry # NoEntry

\* faulty variant of handleNavigationRequest: no offline page
handleNavigationRequest_noOfflinePage(status, body, entry, page) ==
    IF status \in OkStatuses THEN NetworkResponse(status, body)
    ELSE IF entry # NoEntry THEN CachedResponse(entry)
    ELSE Synthetic503

\* handleNavigationRequest after its fetch: the network response if ok, else
\* the cached page, else the offline page, else a synthetic 503
handleNavigationRequest(status, body, entry, page) ==
    IF status \in OkStatuses THEN NetworkResponse(status, body)
    ELSE IF entry # NoEntry THEN CachedResponse(entry)
    ELSE IF page THEN OfflinePage
    ELSE Synthetic503

\* faulty variant of networkFirstStrategy: no cache fallback
networkFirstStrategy_noFallback(status, body, entry) ==
    IF status \in OkStatuses THEN NetworkResponse(status, body) ELSE Rejected

\* networkFirstStrategy after its fetch: the network response if ok, else the
\* cached one, else the error is rethrown
networkFirstStrategy(status, body, entry) ==
    IF status \in OkStatuses THEN NetworkResponse(status, body)
    ELSE IF entry # NoEntry THEN CachedResponse(entry)
    ELSE Rejected

\* cacheFirstStrategy after a cache miss and its fetch: whatever the network
\* answered, ok or not; a rejected fetch is rethrown
cacheFirstStrategy(status, body) ==
    IF status = NetworkError THEN Rejected ELSE NetworkResponse(status, body)

\* faulty variant of apiRequestStrategy: a rejected fetch is rethrown
apiRequestStrategy_rethrow(status, body, entry) ==
    IF status # NetworkError THEN NetworkResponse(status, body) ELSE Rejected

\* apiRequestStrategy after a cache miss and its fetch: whatever the network
\* answered; on a rejected fetch the cache is looked up again, else a 503
\* with the offline JSON body
apiRequestStrategy(status, body, entry) ==
    IF status # NetworkError THEN NetworkResponse(status, body)
    ELSE IF entry # NoEntry THEN CachedResponse(entry)
    ELSE OfflineResponse

Respond(url, status, body, entry, page) ==
    CASE Strategy(url) = "handleNavigationRequest" ->
            handleNavigationRequest(status, body, entry, page)
      [] Strategy(url) = "apiRequestStrategy" -> apiRequestStrategy(status, body, entry)
      [] Strategy(url) = "cacheFirstStrategy" -> cacheFirstStrategy(status, body)
      [] OTHER -> networkFirstStrategy(status, body, entry)

\* the observer's reading of an awaited fetch
NetOutcome(status) ==
    IF status = NetworkError THEN "rejected"
    ELSE IF status \in OkStatuses THEN "ok" ELSE "notok"

Idle == [pc |-> "idle", url |-> "", request |-> NoRequest, handler |-> "none",
         offl |-> FALSE,
         stored |-> NoEntry, net |-> "none", background |-> FALSE,
         entry |-> NoEntry, resp |-> NoResponse]

\* self.addEventListener('fetch', ...) for a GET of url, up to the handler's
\* first await of the network: a cache-first handler that finds the entry
\* starts updateCacheInBackground and answers at once
FetchEvent(url) ==
    /\ req.pc # "net"
    /\ LET entry == cache[url]
           started == [Idle EXCEPT !.url = url, !.request = RequestFor(url),
                                   !.handler = Strategy(url),
                                   !.offl = ~online, !.stored = entry]
       IN  IF ServesFromCache(url, entry)
           THEN /\ bg[url] < MaxBg
                /\ bg' = [bg EXCEPT ![url] = @ + 1]
                /\ req' = [started EXCEPT !.pc = "done", !.background = TRUE,
                                          !.entry = entry,
                                          !.resp = CachedResponse(entry)]
           ELSE /\ req' = [started EXCEPT !.pc = "net", !.net = "pending"]
                /\ UNCHANGED bg
    /\ UNCHANGED <<pageVars, online, opStore, swStore, syncReg, drains, history, cache,
                   offlinePage, origin>>

\* self.addEventListener('fetch', ...) up to its choice of a handler, for any
\* request
FetchListener(request) ==
    /\ req.pc \in {"idle", "routed"}
    /\ req' = [Idle EXCEPT !.pc = "routed", !.request = request,
                           !.handler = Dispatch(request)]
    /\ UNCHANGED <<pageVars, online, opStore, swStore, syncReg, drains, history, cache,
                   offlinePage, origin, bg>>

\* request.url of a request of the application, from its path
RECURSIVE Href(_)
Href(pathname) ==
    IF pathname = <<>> THEN ""
    ELSE (IF Head(pathname) \in staticExtensions THEN Head(pathname)
          ELSE "/" \o Head(pathname)) \o Href(Tail(pathname))

\* store.add(requestData) on the autoIncrement store: url, method and body of
\* the request
storeRequestForSync(request) ==
    sync_queue \cup { [id |-> nextReqId, url |-> Href(request.pathname),
                       method |-> request.method, body |-> "B"] }

\* the fetch event of a request that is not a GET: the listener's choice of
\* a handler and, where that is apiRequestStrategy, networkOnlyWithSync: the
\* fetch, and when it rejects storeRequestForSync (whose catch swallows a
\* failure of the database) and the 202 answer
FetchWrite(request, dbOK) ==
    /\ req.pc \in {"idle", "routed"}
    /\ request.method # "GET"
    /\ nextReqId <= MaxOps
    /\ req' = [Idle EXCEPT !.pc = "routed", !.request = request,
                           !.handler = Dispatch(request)]
    /\ LET queued == Dispatch(request) = "apiRequestStrategy" /\ ~online /\ dbOK
       IN  /\ sync_queue' = IF queued THEN storeRequestForSync(request) ELSE sync_queue
           /\ nextReqId' = IF queued THEN nextReqId + 1 ELSE nextReqId
    /\ UNCHANGED <<pageVars, online, opStore, authNotified, syncReg, drains, history, cache,
                   offlinePage, origin, bg>>

\* faulty variant of Caches: every response that came is put in the cache
Caches_always(status) == status # NetworkError

\* faulty variant of Caches: a server error is put in the cache as well
Caches_serverErrors(status) == status \in OkStatuses \/ status >= 500

\* the body of a response that is not ok: the server's error page
ErrorBody == 0 - 1

\* what cache.put(request, networkResponse.clone()) stores: the body the
\* response carries
Clone(status) == IF status \in OkStatuses THEN origin ELSE ErrorBody

\* whether a handler puts the response of its fetch in the cache:
\* `if (networkResponse.ok) { cache.put(request, networkResponse.clone()) }`
Caches(status) == status \in OkStatuses

\* the awaited fetch of the handler settles: an ok response is put in the
\* cache, and the handler answers
NetworkReply(status) ==
    /\ req.pc = "net"
    /\ status \in GetStatuses
    /\ cache' = IF Caches(status) THEN [cache EXCEPT ![req.url] = Clone(status)]
                ELSE cache
    /\ req' = [req EXCEPT !.pc = "done", !.net = NetOutcome(status),
                          !.entry = cache[req.url],
                          !.resp = Respond(req.url, status, origin, cache[req.url],
                                           offlinePage)]
    /\ UNCHANGED <<pageVars, online, opStore, swStore, syncReg, drains, history, offlinePage,
                   origin, bg>>

\* updateCacheInBackground: its fetch settles; an ok response replaces the
\* entry, anything else is dropped (a rejection is only logged)
BackgroundReply(url, status) ==
    /\ bg[url] > 0
    /\ status \in GetStatuses
    /\ bg' = [bg EXCEPT ![url] = @ - 1]
    /\ cache' = IF Caches(status) THEN [cache EXCEPT ![url] = Clone(status)] ELSE cache
    /\ UNCHANGED <<pageVars, online, opStore, swStore, syncReg, drains, history, offlinePage,
                   origin, req>>

\* the server's data changes
ServerChange ==
    /\ origin < MaxVersion
    /\ origin' = origin + 1
    /\ UNCHANGED <<pageVars, online, opStore, swStore, syncReg, drains, history, cache,
                   offlinePage, req, bg>>

\* message CLEAR_CACHE -> clearCache(): every cache is deleted
clearCache ==
    /\ cache' = [u \in Urls |-> NoEntry]
    /\ offlinePage' = FALSE
    /\ UNCHANGED <<pageVars, online, opStore, swStore, syncReg, drains, history, origin, req, bg>>

----------------------------------------------------------------------------
(* The specifications *)

InitPage ==
    /\ mirror = [storeName \in MirrorStores |-> {}]
    /\ lastCall = NoCall
    /\ timers = [h \in TimerHandles |-> NoTimer]
    /\ _reportsUpdateTimer = NoTimer
    /\ lastTsAge = _reportsMinInterval
    /\ updating = 0
    /\ callAge = _reportsDebounce
    /\ burst = 0
    /\ burstRuns = 0
    /\ apiCall = NoApiCall
    /\ loginRedirect = FALSE

InitQueues ==
    /\ pendingOperations = {}
    /\ nextOpId = 1
    /\ sales = {}
    /\ nextSaleId = 1
    /\ saleResult = NoSale
    /\ syncReg = {}
    /\ drains = EmptyBag
    /\ authNotified = {}
    /\ acked = <<>>
    /\ unacked = {}
    /\ removed = {}
    /\ restarted = FALSE
    /\ lastDelete = NoDelete

\* the install event: cache.addAll(STATIC_CACHE_URLS) stores every URL or,
\* when one of them cannot be fetched, none
InitCache(outcomes) ==
    /\ origin = 1
    /\ req = Idle
    /\ bg = [u \in Urls |-> 0]
    /\ \E installed \in outcomes :
          /\ cache = [u \in Urls |-> IF installed /\ u \in STATIC_CACHE_URLS
                                    THEN origin ELSE NoEntry]
          /\ offlinePage = installed

\* the sync_queue store is durable: the worker starts with whatever it holds
Init ==
    /\ online \in BOOLEAN
    /\ InitQueues
    /\ InitPage
    /\ InitCache({TRUE})
    /\ \E n \in 0..MaxOps : sync_queue = SeedRequests(n) /\ nextReqId = n + 1

Next ==
    \/ \E kind \in OpKinds : \E outcome \in {"stored", "db_error"} :
          storePendingOperation(kind, outcome)
    \/ OnlineEvent
    \/ OfflineEvent
    \/ syncOfflineData
    \/ ForceSync
    \/ \E tag \in SyncTags : SyncEvent(tag)
    \/ \E run \in Runs : \E status \in OnlineStatuses \cup {NetworkError} :
          processPendingOperations_Response(run, status)
    \/ \E run \in Runs : \E status \in OnlineStatuses \cup {NetworkError} :
          syncQueuedRequests_Response(run, status)

\* the queues, the sync triggers and the replay runs
Spec == Init /\ [][Next]_vars

\* every response comes, and the browser dispatches a registered sync tag
\* that stays dispatchable (Background Sync: the event is fired as soon as
\* the network is there)
Fairness ==
    /\ \A tag \in SyncTags : WF_vars(SyncEvent(tag))
    /\ WF_vars(\E run \in Runs : \E status \in OnlineStatuses \cup {NetworkError} :
                  processPendingOperations_Response(run, status))
    /\ WF_vars(\E run \in Runs : \E status \in OnlineStatuses \cup {NetworkError} :
                  syncQueuedRequests_Response(run, status))

\* Spec with the progress the browser guarantees
SpecLive == Spec /\ Fairness

\* the replay while the server answers every request it receives with a
\* success, the network comes back for good and syncs keep being asked for
NextRetry ==
    \/ \E kind \in OpKinds : storePendingOperation(kind, "stored")
    \/ OnlineEvent
    \/ ForceSync
    \/ \E tag \in SyncTags : SyncEvent(tag)
    \/ \E run \in Runs : \E status \in OkStatuses \cup {NetworkError} :
          processPendingOperations_Response(run, status)
    \/ \E run \in Runs : \E status \in OkStatuses \cup {NetworkError} :
          syncQueuedRequests_Response(run, status)

\* a sync event that makes a page call processPendingOperations on a store
\* that holds something to send
StartsDrain ==
    /\ \E tag \in SyncTags : SyncEvent(tag)
    /\ Active("processPendingOperations")' > Active("processPendingOperations")

\* the network comes back, a sync is asked for again and again, and there is
\* again and again a page to take the worker's message
FairnessRetry ==
    /\ WF_vars(OnlineEvent)
    /\ WF_vars(ForceSync)
    /\ \A tag \in SyncTags : WF_vars(SyncEvent(tag))
    /\ SF_vars(StartsDrain)
    /\ WF_vars(\E run \in Runs : \E status \in OkStatuses \cup {NetworkError} :
                  processPendingOperations_Response(run, status))
    /\ WF_vars(\E run \in Runs : \E status \in OkStatuses \cup {NetworkError} :
                  syncQueuedRequests_Response(run, status))

SpecRetry == Init /\ [][NextRetry]_vars /\ FairnessRetry

InitStore ==
    /\ online \in BOOLEAN
    /\ InitQueues
    /\ InitPage
    /\ InitCache({TRUE})
    /\ sync_queue = {}
    /\ nextReqId = 1

\* sales made through createSale, and their replay
NextSales ==
    \/ \E reference \in References : \E status \in OnlineStatuses \cup {NetworkError} :
       \E sale_id \in SaleIds : \E stored \in BOOLEAN :
       \E outcome \in {"stored", "sync_rejected", "db_error"} :
          createSale(reference, status, sale_id, stored, outcome)
    \/ OnlineEvent
    \/ OfflineEvent
    \/ \E tag \in SyncTags : SyncEvent(tag)
    \/ \E run \in Runs : \E status \in OnlineStatuses \cup {NetworkError} :
          processPendingOperations_Response(run, status)

SpecSales == InitStore /\ [][NextSales]_vars

\* the calls on the mirror stores
NextData ==
    \/ \E storeName \in MirrorStores : \E item \in Items : \E dbOK \in BOOLEAN :
          storeDataCall(storeName, item, dbOK)
    \/ \E storeName \in MirrorStores : \E id \in Keys : \E dbOK \in BOOLEAN :
          getItemByIdCall(storeName, id, dbOK)
    \/ \E storeName \in MirrorStores : \E id \in Keys : \E dbOK \in BOOLEAN :
          deleteItemCall(storeName, id, dbOK)
    \/ \E storeName \in MirrorStores : \E status \in OnlineStatuses \cup {NetworkError} :
       \E body \in BodiesOf(status) : \E dbOK \in BOOLEAN :
          fetchAndCacheData(storeName, status, body, dbOK)
    \/ OnlineEvent
    \/ OfflineEvent

SpecData == InitStore /\ [][NextData]_vars

\* the charts scheduler and the passing of time
NextCharts ==
    \/ \E forceImmediate \in BOOLEAN : scheduleUpdateReportsCharts(forceImmediate)
    \/ \E h \in TimerHandles : TimerFires(h)
    \/ updateAllReturns
    \/ TimePasses

SpecCharts == InitStore /\ [][NextCharts]_vars

\* time goes on, a due callback is run by the event loop, and every
\* updateAll call returns
FairnessCharts ==
    /\ WF_vars(TimePasses)
    /\ \A h \in TimerHandles : WF_vars(TimerFires(h))
    /\ WF_vars(updateAllReturns)

SpecChartsLive == SpecCharts /\ FairnessCharts

\* calls of enhancedApiFetch, one at a time
NextApi ==
    \/ enhancedApiFetch
    \/ \E outcome \in ApiStatuses \cup {NetworkError, AbortError} : RequestSettles(outcome)
    \/ RetryDelayElapses
    \/ LoginRedirect
    \/ OnlineEvent
    \/ OfflineEvent

SpecApi == InitStore /\ [][NextApi]_vars

\* every request settles (the timeout aborts it after 10 s at the latest)
\* and the retry delay passes
FairnessApi ==
    /\ WF_vars(\E outcome \in ApiStatuses \cup {NetworkError, AbortError} :
                  RequestSettles(outcome))
    /\ WF_vars(RetryDelayElapses)

SpecApiLive == SpecApi /\ FairnessApi

NextStore ==
    \/ \E kind \in OpKinds : \E outcome \in {"stored", "sync_rejected", "db_error"} :
          storePendingOperation(kind, outcome)
    \/ \E id \in CallIds : \E dbOK \in BOOLEAN : DeleteItemCall(id, dbOK)
    \/ Crash

\* the pendingOperations store under its public calls and a crash/restart
SpecStore == InitStore /\ [][NextStore]_vars

InitFetch ==
    /\ online \in BOOLEAN
    /\ InitQueues
    /\ InitPage
    /\ InitCache(BOOLEAN)
    /\ sync_queue = {}
    /\ nextReqId = 1

NextFetch ==
    \/ \E url \in Urls : FetchEvent(url)
    \/ \E status \in {200, 500, NetworkError} : NetworkReply(status)
    \/ \E url \in Urls : \E status \in {200, 500, NetworkError} :
          BackgroundReply(url, status)
    \/ ServerChange
    \/ clearCache
    \/ OnlineEvent
    \/ OfflineEvent

\* the worker's fetch handler and response cache
SpecCache == InitFetch /\ [][NextFetch]_vars

\* the fetch listener's dispatch, over every request
NextRoute == \E request \in Requests : FetchListener(request)

SpecRoute == InitFetch /\ [][NextRoute]_vars

\* the requests that are not GETs, and the sync events after them
NextQueue ==
    \/ \E request \in Requests : \E dbOK \in BOOLEAN : FetchWrite(request, dbOK)
    \/ OnlineEvent
    \/ OfflineEvent
    \/ syncOfflineData
    \/ ForceSync
    \/ \E tag \in SyncTags : SyncEvent(tag)

SpecQueue == InitFetch /\ [][NextQueue]_vars

----------------------------------------------------------------------------
(* Properties of the replay runs (Spec) *)

\* position of the operation with this id in the order of the enqueue calls
Pos(id) == CHOOSE k \in DOMAIN acked : acked[k].id = id

\* creation order of two queued records: the order of the enqueue calls for
\* pendingOperations, the autoIncrement key for sync_queue
CreatedBefore(fn, a, b) ==
    IF fn = "processPendingOperations" THEN Pos(a) < Pos(b) ELSE a < b

\* positions of the snapshot after the current one that the loop sends
Later(run) == { j \in (run.i + 1)..Len(run.snap) : Sendable(run.fn, run.snap[j]) }

\* the store a replay function drains
StoreOf(fn) == IF fn = "syncQueuedRequests" THEN sync_queue ELSE pendingOperations

\* a step in which this run handles a response with this status
Handles(run, status) ==
    \/ processPendingOperations_Response(run, status)
    \/ syncQueuedRequests_Response(run, status)

\* the runs that can have taken the step: a run that handles a response
\* leaves the bag or is replaced in it by its successor
Acting == { r \in Runs : CopiesIn(r, drains') < CopiesIn(r, drains) }

\* the responses in reach that are neither a success nor 401/403
Failures == { status \in Responses : Class(status) = "fail" }

\* C1: when the replay of an operation is answered with 401/403, the drain
\* stops there: the operation is removed from its queue and the run issues no
\* request for a later operation of its snapshot.
C1_DrainStopsAtAuthFailure ==
    [][ \A run \in Acting : \A status \in AuthStatuses :
          Handles(run, status)
          => /\ run.snap[run.i] \notin pendingOperations' \cup sync_queue'
             /\ drains' = drains (-) SetToBag({run})
      ]_vars

\* C2: at most one run of each replay function is in flight at any time.
C2_OneDrainAtATime ==
    /\ Active("processPendingOperations") <= 1
    /\ Active("syncQueuedRequests") <= 1

\* C3: when a single create_sale operation has been enqueued, at most one
\* POST /api/sales/create for it is in flight, over all clients and runs.
C3_SalePostedOnce ==
    (nextOpId = 2 /\ Len(acked) = 1 /\ acked[1].type = "create_sale")
        => Active("processPendingOperations") <= 1

\* C4: a record leaves pendingOperations only by the replay of that very
\* record answered with an HTTP success, and leaves sync_queue only by the
\* replay of that very record answered with a success or with 401/403; every
\* record ever stored is still in its store unless it left in that way.
C4_RemovedOnlyAfterSuccessOrAuth ==
    /\ \A r \in removed :
          /\ r.id = r.of
          /\ r.store = "pendingOperations" => r.by = "ok"
          /\ r.store = "sync_queue" => r.by \in {"ok", "auth"}
    /\ Ids(pendingOperations) = (1..(nextOpId - 1)) \ RemovedIds("pendingOperations")
    /\ Ids(sync_queue) = (1..(nextReqId - 1)) \ RemovedIds("sync_queue")

C4_Witness ==
    /\ \E r \in removed : r.store = "sync_queue" /\ r.by = "auth"
    /\ \E run \in Runs :
          /\ run.fn = "syncQueuedRequests"
          /\ run.failed = 2
          /\ run.snap[run.i - 1] \in sync_queue

\* C5: a run that has met no failure has issued its requests in creation
\* order, skipping no operation it sends, and one at a time: every request
\* but the last has been answered before the next was issued.
C5_RequestsInCreationOrder ==
    \A run \in Runs : run.failed = 0 =>
        /\ Len(run.sent) = run.processed + 1
        /\ \A j, k \in DOMAIN run.sent :
              j < k => CreatedBefore(run.fn, run.sent[j], run.sent[k])
        /\ { run.snap[j].id : j \in { p \in 1..run.i : Sendable(run.fn, run.snap[p]) } }
              = Range(run.sent)

C5_Witness ==
    \E run \in Runs :
        /\ run.fn = "processPendingOperations"
        /\ run.failed = 0
        /\ Len(run.sent) = 3
        /\ run.processed = 2

C15_DrainEndsWithSummary ==
    [][ \A run \in Acting : \A status \in Responses :
          (Handles(run, status) /\ Continue(run, status).pc = "done")
          => LET last == Continue(run, status)
             IN  /\ Returned(last).type # "none"
                 /\ Returned(last).syncedCount = last.processed
                 /\ Returned(last).failedCount = last.failed
      ]_vars

\* whether the step in which a run handles this status posts AUTH_REQUIRED to
\* the pages: only syncQueuedRequests has that branch
PostsAuthRequired(run, status) ==
    run.fn = "syncQueuedRequests" /\ status \in AuthStatuses

\* C16: when the replay of an operation of either queue is answered with 401
\* or 403, the step removes the operation from its store and posts
\* AUTH_REQUIRED to the pages.
C16_AuthFailureRemovesAndSignals ==
    [][ \A run \in Acting : \A status \in AuthStatuses \cap Responses :
          Handles(run, status)
          => /\ run.snap[run.i] \notin pendingOperations'
             /\ run.snap[run.i] \notin sync_queue'
             /\ PostsAuthRequired(run, status)
      ]_vars

\* the ids of the operations whose storePendingOperation call returned true
AckedIds == { acked[k].id : k \in DOMAIN acked }

\* an operation that processPendingOperations would send is queued
Replayable == \E op \in pendingOperations : Endpoint(op) # ""

\* C17: whenever the network is there and pendingOperations holds an
\* operation to replay, a run of processPendingOperations is eventually in
\* progress, unless the operation leaves the store or the network goes away
\* again first.
C17_OnlineLeadsToDrain ==
    (online /\ Replayable)
        ~> (Active("processPendingOperations") >= 1 \/ ~Replayable \/ ~online)

\* C18: while the server answers every replay with a success, the network
\* comes back for good and drains keep being started, every operation that
\* storePendingOperation has acknowledged leaves the store in the end.
C18_AckedEventuallyRemoved ==
    \A id \in 1..MaxOps :
        (id \in AckedIds /\ id \in Ids(pendingOperations))
            ~> (id \notin Ids(pendingOperations))

\* what a reader of the stored operation finds as its attemptCount:
\* storePendingOperation writes type, data and timestamp, and the replay
\* loop writes nothing back, so the record has no such field
attemptCount(op) == IF "attemptCount" \in DOMAIN op THEN op.attemptCount ELSE Undefined

\* C23: a replay of a queued operation that fails with a network error or a
\* status other than 2xx, 401, 403 leaves the operation stored with its
\* attemptCount one higher than before.
C23_FailedReplayCountsAttempt ==
    [][ \A run \in Acting : \A status \in Failures :
          (run.fn = "processPendingOperations" /\ Handles(run, status))
          => \A op \in pendingOperations' :
                op.id = run.snap[run.i].id
                   => attemptCount(op) = attemptCount(run.snap[run.i]) + 1
      ]_vars

\* the records a step takes out of the store a replay function drains
Gone(fn) ==
    IF fn = "syncQueuedRequests" THEN sync_queue \ sync_queue'
    ELSE pendingOperations \ pendingOperations'

\* C30: the counts of a drain add up.  When a run returns, succeeded + failed
\* is the total, the length of the queue as the run read it at its start; and
\* each replay takes one operation out of the queue when it is answered with
\* a success or with 401/403, and none otherwise, so that the operations
\* removed during the run are the succeeded and the auth-failed ones.
C30_SummaryCountsAddUp ==
    [][ \A run \in Acting : \A status \in Responses :
          Handles(run, status)
          => LET last == Continue(run, status)
             IN  /\ last.pc = "done"
                       => last.processed + last.failed = Len(last.snap)
                 /\ Cardinality(Gone(run.fn)) =
                       IF status \in OkStatuses \cup AuthStatuses THEN 1 ELSE 0
      ]_vars

----------------------------------------------------------------------------
(* Properties of the pendingOperations store (SpecStore) *)

IsAcked(op) == op.id \in AckedIds

NotRemoved(op) == op.id \notin RemovedIds("pendingOperations")

\* C7: getPendingOperations returns the operations whose enqueue call
\* returned true and that were not removed since, each once, as they were
\* enqueued and in the order of the calls, also after a crash/restart; when
\* every call returned true it returns exactly those.
C7_ListIsAckedNotRemovedInOrder ==
    /\ SelectSeq(getPendingOperations, IsAcked) = SelectSeq(acked, NotRemoved)
    /\ unacked = {} => getPendingOperations = SelectSeq(acked, NotRemoved)

C7_Witness ==
    /\ restarted
    /\ unacked = {}
    /\ Len(acked) = 3
    /\ RemovedIds("pendingOperations") = {2}
    /\ Len(getPendingOperations) = 2

\* C8: a deleteItem('pendingOperations', id) call, also a repeated one and
\* one with an id that was never stored, returns true when the database
\* opens, removes no record with another id and adds none.
C8_DeleteIsIdempotent ==
    [][ \A id \in CallIds : \A dbOK \in BOOLEAN :
          DeleteItemCall(id, dbOK)
          => /\ dbOK => lastDelete'.result
             /\ \A r \in pendingOperations : r.id # id => r \in pendingOperations'
             /\ pendingOperations' \subseteq pendingOperations
             /\ dbOK => id \notin Ids(pendingOperations')
      ]_vars

C8_Witness ==
    /\ lastDelete.again
    /\ lastDelete.result
    /\ lastDelete.id \in RemovedIds("pendingOperations")
    /\ pendingOperations # {}

----------------------------------------------------------------------------
(* Properties of the response cache (SpecCache) *)

\* the request was made while the network was down and no fetch of its
\* handler was answered
Offline(r) == r.offl /\ r.net \in {"none", "rejected"}

\* C9: a GET made while the network is down, for a URL whose response was in
\* the cache when the request was made and still is when the handler
\* answers, is answered with the cached response, whatever the handler and
\* however stale the entry.
C9_OfflineGetServedFromCache ==
    (req.pc = "done" /\ Offline(req) /\ req.stored # NoEntry /\ req.entry # NoEntry)
        => req.resp = CachedResponse(req.entry)

C9_Witness ==
    /\ req.pc = "done"
    /\ Offline(req)
    /\ Strategy(req.url) = "networkFirstStrategy"
    /\ req.stored # NoEntry
    /\ req.resp = CachedResponse(req.entry)
    /\ req.entry # origin

\* C10 as the specification states it: an offline GET of a cached data-API
\* URL is answered with the cached body and attempts no network request.
C10_NoNetworkAttempt ==
    (req.pc = "done" /\ isAPIRequest(RequestFor(req.url)) /\ req.offl /\ req.stored # NoEntry)
        => /\ req.resp = CachedResponse(req.stored)
           /\ req.net = "none"
           /\ ~req.background

\* C10: an offline GET of a cached data-API URL is answered with the cached
\* body without awaiting the network; the one network request it attempts is
\* the background cache update.
C10_CachedBodyWithBackgroundUpdate ==
    (req.pc = "done" /\ isAPIRequest(RequestFor(req.url)) /\ req.offl /\ req.stored # NoEntry)
        => /\ req.resp = CachedResponse(req.stored)
           /\ req.net = "none"
           /\ req.background

C10_Witness ==
    /\ req.pc = "done"
    /\ isAPIRequest(RequestFor(req.url))
    /\ req.offl
    /\ req.stored # NoEntry
    /\ req.background
    /\ ~online
    /\ bg[req.url] = 0
    /\ cache[req.url] = req.stored

\* the handler of a navigation starts: the step of the fetch event
NavigationStarts == req' # req /\ req.pc # "net" /\ isNavigation(RequestFor(req'.url))

\* the handler of a navigation answers: the step in which its fetch settles
NavigationAnswers == req.pc = "net" /\ isNavigation(RequestFor(req.url)) /\ req'.pc = "done"

ApiStarts == req' # req /\ req.pc # "net" /\ isAPIRequest(RequestFor(req'.url))

\* the handler of a data-API GET answers after its own fetch settled
ApiAnswers == req.pc = "net" /\ isAPIRequest(RequestFor(req.url)) /\ req'.pc = "done"

\* a fetch of updateCacheInBackground settles
BackgroundSettles == \E url \in Urls : bg'[url] < bg[url]

\* C12 as the specification states it: a data-API GET that found no cached
\* response and whose network request failed is answered with the synthetic
\* 503 whose JSON body has offline = true.
C12_NetworkFailureGivesOffline503 ==
    (req.pc = "done" /\ isAPIRequest(RequestFor(req.url)) /\ req.stored = NoEntry
                     /\ req.net = "rejected")
        => req.resp = OfflineResponse

\* C12: a data-API GET that finds a cached response returns it in the step of
\* the fetch event, having started one background re-fetch, and the settling
\* of a background re-fetch never changes a request's answer; one that finds
\* none waits for the network: an ok response is put in the cache and
\* returned, a non-ok response is returned and not cached, and after a
\* rejected fetch the cache is looked up again: the entry found there is
\* returned and, when there is none, the synthetic 503 with offline = true.
C12_DataApiCacheFirst ==
    [][ /\ (ApiStarts /\ cache[req'.url] # NoEntry) =>
              /\ req'.pc = "done"
              /\ req'.net = "none"
              /\ req'.resp = CachedResponse(cache[req'.url])
              /\ bg' = [bg EXCEPT ![req'.url] = @ + 1]
              /\ cache' = cache
        /\ (ApiStarts /\ cache[req'.url] = NoEntry) =>
              /\ req'.pc = "net"
              /\ bg' = bg
        /\ BackgroundSettles => req' = req
        /\ ApiAnswers =>
              \/ /\ req'.net = "ok"
                 /\ req'.resp = NetworkResponse(200, origin)
                 /\ cache' = [cache EXCEPT ![req.url] = origin]
              \/ /\ req'.net = "notok"
                 /\ req'.resp.from = "network"
                 /\ req'.resp.status \notin OkStatuses
                 /\ cache' = cache
              \/ /\ req'.net = "rejected"
                 /\ cache' = cache
                 /\ req'.resp = IF cache[req.url] # NoEntry
                                 THEN CachedResponse(cache[req.url])
                                 ELSE OfflineResponse
      ]_vars

\* the synthetic 503 case
C12_Witness ==
    /\ req.pc = "done"
    /\ isAPIRequest(RequestFor(req.url))
    /\ req.stored = NoEntry
    /\ req.net = "rejected"
    /\ req.resp = OfflineResponse

\* C13: whatever the handler, a GET whose network request failed is answered
\* with a cached response, the offline page or a synthetic error response;
\* the handler's promise is never rejected.
C13_FailedFetchStillAnswered ==
    (req.pc = "done" /\ req.net = "rejected")
        => req.resp.from \in {"cache", "offline_page", "synthetic"}

\* a step that may change the entry of url: a handler or a background update
\* puts an ok response for it, or CLEAR_CACHE purges the cache
Overwrites(url) ==
    \E status \in OkStatuses :
       \/ req.url = url /\ NetworkReply(status)
       \/ BackgroundReply(url, status)

\* C24: the entry stored for a URL stays as it is in every step that is not
\* the caching of a later ok network response for that URL or the purge by
\* CLEAR_CACHE: a failed or non-ok fetch, a change of the server's data and
\* going offline or online leave it alone.
C24_EntryStaysUntilOverwrittenOrPurged ==
    [][ cache' # cache =>
          \A url \in Urls :
             cache[url] # NoEntry
                => \/ cache'[url] = cache[url]
                   \/ Overwrites(url) /\ cache'[url] = origin
                   \/ clearCache /\ cache'[url] = NoEntry
      ]_vars

\* a stale entry has outlived a change of the server's data and a failed fetch
C24_Witness ==
    /\ req.pc = "done"
    /\ req.net = "rejected"
    /\ cache[req.url] # NoEntry
    /\ cache[req.url] = req.stored
    /\ cache[req.url] # origin

\* a fetch of a handler or of a background update has settled with this
\* status
Replies(status) ==
    \/ NetworkReply(status)
    \/ \E url \in Urls : BackgroundReply(url, status)

\* C29: the handlers and the background update write only ok responses to
\* the cache: no entry ever holds the body of a response that is not ok, and
\* the settling of a fetch with a status that is not ok, or its rejection,
\* leaves every entry as it was.
C29_OnlyOkResponsesAreCached ==
    /\ [](\A url \in Urls : cache[url] # ErrorBody)
    /\ [][ cache' # cache
              => \A status \in {500, NetworkError} : ~Replies(status) ]_vars

\* the fetch of a handler was answered with the server's 500 while the cache
\* held an entry for the URL, and the entry is the one from before
C29_Witness ==
    /\ req.pc = "done"
    /\ req.net = "notok"
    /\ req.stored # NoEntry
    /\ cache[req.url] = req.stored

----------------------------------------------------------------------------
(* Properties of the fetch listener's dispatch (SpecRoute) *)

\* C14: a request is given to apiRequestStrategy, the cache-first handler
\* with a background re-fetch, only if its path matches one of
\* API_CACHE_PATTERNS.
C14_ApiStrategyOnlyForListedPaths ==
    (req.pc = "routed" /\ req.handler = "apiRequestStrategy")
        => MatchesApiCachePatterns(req.request.pathname)

----------------------------------------------------------------------------
(* Properties of the 'sales' store (SpecSales) *)

\* the records of a store that hold the sale with these contents
SaleRecords(store, items) == { s \in store : s.items = items }

\* the run's step deletes the create_sale operation it has replayed, and the
\* server's answer carried a sale id
ReconcilesSale(r) ==
    /\ r.fn = "processPendingOperations"
    /\ r.snap[r.i].type = "create_sale"
    /\ r.snap[r.i].id \in Ids(pendingOperations) \ Ids(pendingOperations')
    /\ \E sale_id \in ServerSaleIds : sales' = Reconcile(r.snap[r.i], sale_id)

\* C19: when a queued create_sale operation is replayed with success and the
\* server returns a sale id, no record of that sale is left with synced =
\* false, no second record of it is added to 'sales', and no record of
\* another sale is changed.
C19_ReplayReconcilesSale ==
    [][ \A r \in Acting :
          ReconcilesSale(r) =>
            LET items == r.snap[r.i].data.items
            IN  /\ \A s \in SaleRecords(sales', items) : s.synced
                /\ Cardinality(SaleRecords(sales', items))
                      <= Cardinality(SaleRecords(sales, items))
                /\ \A s \in sales : s.items # items => s \in sales'
      ]_vars

\* C20: createSale returns success = true only for a sale that the server
\* accepted or that is in the pendingOperations store.
C20_SuccessMeansAcceptedOrQueued ==
    saleResult.success => (saleResult.accepted \/ saleResult.queued)

----------------------------------------------------------------------------
(* Properties of the local mirror (SpecData) *)

\* the records of the store that have this primary key
WithKey(storeName, id) == { r \in mirror[storeName] : r.id = id }

----------------------------------------------------------------------------
(* Properties of the charts scheduler (SpecCharts) *)

\* the callbacks that are scheduled
Pending == { h \in TimerHandles : timers[h] # NoTimer }

\* the step calls updateAll
RunStarts == updating' > updating

\* C25: a burst of non-forced schedule calls, each less than 250 ms after the
\* one before, gives one run, after its last call.  While the last call is
\* less than 250 ms old exactly one callback is scheduled, the one of that
\* call, due 250 ms after it, and no run of the burst has started.  Once the
\* call is 250 ms old, either one callback is scheduled and no run of the
\* burst has started, or none is scheduled and exactly one has; and unless
\* another schedule call comes first, the run does start.
C25_BurstGivesOneRunAfterLastCall ==
    /\ [](burst > 0 /\ callAge < _reportsDebounce
             => /\ Pending = {_reportsUpdateTimer}
                /\ timers[_reportsUpdateTimer] = _reportsDebounce - callAge
                /\ burstRuns = 0)
    /\ [](burst > 0 /\ callAge >= _reportsDebounce
             => \/ Pending = {_reportsUpdateTimer} /\ burstRuns = 0
                \/ Pending = {} /\ burstRuns = 1)
    /\ [][ \A h \in TimerHandles :
             (TimerFires(h) /\ RunStarts /\ burst > 0)
                => callAge >= _reportsDebounce /\ updating' = updating + 1
         ]_vars
    /\ (burst > 0 /\ burstRuns = 0 /\ callAge >= _reportsDebounce)
          ~> (burstRuns = 1 \/ burst = 0 \/ callAge = 0)

\* the callback of the last call of a burst of MaxBurst calls has started the
\* run
C25_Witness ==
    /\ burst = MaxBurst
    /\ burstRuns = 1
    /\ Pending = {}
    /\ lastTsAge = 0

\* C26: a run starts only when the last run started at least 700 ms ago and
\* has returned, whether a callback or a forced call starts it.
C26_RunsApartAndNeverOverlapping ==
    [][ RunStarts => (lastTsAge >= _reportsMinInterval /\ updating = 0) ]_vars

----------------------------------------------------------------------------
(* Properties of enhancedApiFetch (SpecApiLive) *)

Settled == apiCall.pc \in {"idle", "resolved", "rejected"}

\* C27: a call of enhancedApiFetch issues at most 1 + maxRetries requests,
\* one per attempt number from 0 up; it waits for a retry, and issues a
\* request after the first, only after a response with a retryable status,
\* never after a 401, another status, a rejected fetch or a timeout; and
\* every call settles.
C27_AtMostThreeRequestsThenSettles ==
    /\ [](/\ apiCall.requests <= 1 + maxRetries
          /\ apiCall.pc # "idle" => apiCall.requests = apiCall.attemptNum + 1
          /\ apiCall.pc = "delay"
                => apiCall.last \in retryableStatuses /\ apiCall.attemptNum < maxRetries
          /\ (apiCall.pc = "fetch" /\ apiCall.attemptNum > 0)
                => apiCall.last \in retryableStatuses)
    /\ [][ (apiCall'.requests > 1 /\ apiCall'.requests # apiCall.requests)
              => /\ apiCall.pc = "delay"
                 /\ apiCall'.requests = apiCall.requests + 1
                 /\ apiCall'.attemptNum = apiCall.attemptNum + 1
         ]_vars
    /\ [][ (apiCall.pc = "fetch" /\ apiCall'.pc # "fetch"
               /\ apiCall'.last \notin retryableStatuses)
              => apiCall'.pc \in {"idle", "resolved", "rejected"}
         ]_vars
    /\ (apiCall.pc = "fetch") ~> Settled

\* the call gave up after its third request was answered with a retryable
\* status
C27_Witness ==
    /\ apiCall.pc = "rejected"
    /\ apiCall.requests = 1 + maxRetries
    /\ apiCall.last \in retryableStatuses

----------------------------------------------------------------------------
(* Properties of the sync_queue store (SpecQueue) *)

\* what a run of syncQueuedRequests that found nothing posts
EmptySummary ==
    [type |-> "SYNC_COMPLETED", syncedCount |-> 0, failedCount |-> 0, totalCount |-> 0]

====
